---- MODULE Spec2Model ----
(***************************************************************************)
(* Model of telegram_bulk_checker.py: the identifier parser, the entity    *)
(* classifier, the invite and username adapters and the batch driver's     *)
(* loop with its counters, result list and summary.                        *)
(*                                                                         *)
(* Python strings are TLA+ strings.  An Optional value is a sequence of    *)
(* length at most one: None is <<>>, the value v is <<v>>.  An attribute   *)
(* that an object does not have is a field missing from its record.        *)
(***************************************************************************)
EXTENDS Integers, Sequences, FiniteSets, TLC

\* ------------------------------------------------------------------------
\* Bounds of the model
\* ------------------------------------------------------------------------
MaxBatch == 2

MaxCount == 1

\* ------------------------------------------------------------------------
\* Python values
\* ------------------------------------------------------------------------
None == <<>>

Some(v) == <<v>>

\* getattr(obj, name, default)
GetAttr(obj, name, default) == IF name \in DOMAIN obj THEN obj[name] ELSE default

\* bool(v) of an attribute value that is None, False or True
PyBool(v) == v = Some(TRUE)

\* truth value of an Optional[str]: None and "" are falsy
Truthy(v) == v # None /\ v # Some("")

\* ------------------------------------------------------------------------
\* Characters and the two patterns
\* ------------------------------------------------------------------------
Char(s, k) == SubSeq(s, k, k)

UpperCase == "ABCDEFGHIJKLMNOPQRSTUVWXYZ"

LowerCase == "abcdefghijklmnopqrstuvwxyz"

Digits == "0123456789"

\* re.IGNORECASE compares characters after case folding
Fold(c) ==
    IF \E k \in 1..26 : Char(UpperCase, k) = c
    THEN Char(LowerCase, CHOOSE k \in 1..26 : Char(UpperCase, k) = c)
    ELSE c

CharsOf(s) == {Char(s, k) : k \in 1..Len(s)}

\* [A-Za-z0-9_]
HandleChars == CharsOf(UpperCase) \cup CharsOf(LowerCase) \cup CharsOf(Digits) \cup {"_"}

\* [A-Za-z0-9_-]
CodeChars == HandleChars \cup {"-"}

Whitespace == {" ", "\t", "\n", "\r"}

\* the literal lit matches s at position p, ignoring case
MatchLit(s, p, lit) ==
    /\ p + Len(lit) - 1 <= Len(s)
    /\ \A k \in 1..Len(lit) : Fold(Char(s, p + k - 1)) = Fold(Char(lit, k))

\* length of the greedy run of class characters of s from position p, at most cap
RunLen(s, p, class, cap) ==
    LET avail == IF Len(s) - p + 1 < cap THEN Len(s) - p + 1 ELSE cap
        lim   == IF avail < 0 THEN 0 ELSE avail
    IN  CHOOSE n \in 0..lim :
            /\ \A k \in 1..n : Char(s, p + k - 1) \in class
            /\ n = lim \/ Char(s, p + n) \notin class

\* positions after the optional (?:https?://)? group, the greedy choice first
AfterScheme(s, p) ==
    IF MatchLit(s, p, "https://") THEN <<p + 8, p>>
    ELSE IF MatchLit(s, p, "http://") THEN <<p + 7, p>>
    ELSE <<p>>

\* value.strip()
LStrip(s) ==
    IF \A k \in 1..Len(s) : Char(s, k) \in Whitespace THEN ""
    ELSE SubSeq(s, CHOOSE k \in 1..Len(s) :
                        /\ Char(s, k) \notin Whitespace
                        /\ \A j \in 1..(k - 1) : Char(s, j) \in Whitespace, Len(s))

RStrip(s) ==
    IF \A k \in 1..Len(s) : Char(s, k) \in Whitespace THEN ""
    ELSE SubSeq(s, 1, CHOOSE k \in 1..Len(s) :
                        /\ Char(s, k) \notin Whitespace
                        /\ \A j \in (k + 1)..Len(s) : Char(s, j) \in Whitespace)

Strip(s) == RStrip(LStrip(s))

\* the group captured by [class]{lo,hi} at position c, None if fewer than lo
Capture(s, c, class, lo, hi) ==
    LET n == RunLen(s, c, class, hi)
    IN  IF n >= lo THEN Some(SubSeq(s, c, c + n - 1)) ELSE None

\* first element of a sequence of Optionals that is not None, else None
FirstSome(seq) ==
    IF \E k \in 1..Len(seq) : seq[k] # None
    THEN seq[CHOOSE k \in 1..Len(seq) : seq[k] # None /\ \A j \in 1..(k - 1) : seq[j] = None]
    ELSE None

\* INVITE_RE anchored at position p: the captured code, or None
InviteAt(s, p) ==
    LET web(q) ==
            IF ~MatchLit(s, q, "t.me/") THEN None
            ELSE IF MatchLit(s, q + 5, "joinchat/")
                 THEN Capture(s, q + 14, CodeChars, 16, Len(s))
                 ELSE IF MatchLit(s, q + 5, "+")
                      THEN Capture(s, q + 6, CodeChars, 16, Len(s))
                      ELSE None
        starts == AfterScheme(s, p)
        deep == IF MatchLit(s, p, "tg://join?invite=")
                THEN Capture(s, p + 17, CodeChars, 16, Len(s))
                ELSE None
    IN  FirstSome([k \in 1..Len(starts) |-> web(starts[k])] \o <<deep>>)

\* USERNAME_RE anchored at position p: the captured handle, or None
UsernameAt(s, p) ==
    LET web(q) ==
            IF MatchLit(s, q, "t.me/")
            THEN Capture(s, q + 5, HandleChars, 5, 32)
            ELSE None
        starts == AfterScheme(s, p)
        at == IF MatchLit(s, p, "@")
              THEN Capture(s, p + 1, HandleChars, 5, 32)
              ELSE None
    IN  FirstSome([k \in 1..Len(starts) |-> web(starts[k])] \o <<at>>)

\* INVITE_RE.search(value): the capture of the leftmost match, or None
INVITE_RE(s) == FirstSome([p \in 1..Len(s) |-> InviteAt(s, p)])

\* USERNAME_RE.search(value): the capture of the leftmost match, or None
USERNAME_RE(s) == FirstSome([p \in 1..Len(s) |-> UsernameAt(s, p)])

\* parse_input(value) -> (type, data)
parse_input(raw) ==
    LET value == Strip(raw)
    IN  IF value = "" THEN <<"unknown", None>>
        ELSE IF INVITE_RE(value) # None THEN <<"invite", INVITE_RE(value)>>
        ELSE IF USERNAME_RE(value) # None THEN <<"username", USERNAME_RE(value)>>
        ELSE <<"unknown", None>>

\* ------------------------------------------------------------------------
\* Remote collaborators: what a call can answer
\* ------------------------------------------------------------------------
\* a call either returns an object, [ret |-> obj], or raises an exception of
\* class exc whose str() is msg, [exc |-> name, msg |-> text]
Raised(reply) == "exc" \in DOMAIN reply

Returned(obj) == [ret |-> obj]

Fault(name, text) == [exc |-> name, msg |-> text]

Counts == {None} \cup {Some(n) : n \in 0..MaxCount}

\* types.Channel, types.Chat, types.User and a chat-like object that is none
\* of the three (types.ChannelForbidden)
Channels ==
    { [cls |-> "Channel", megagroup |-> Some(FALSE), username |-> Some("durov"),
       verified |-> Some(TRUE), title |-> "News"],
      [cls |-> "Channel", megagroup |-> Some(TRUE), username |-> None,
       verified |-> None, title |-> "Club"] }

Chats == { [cls |-> "Chat", title |-> "Family"] }

Users == { [cls |-> "User", username |-> Some("alice"), verified |-> Some(FALSE)] }

Forbidden == { [cls |-> "ChannelForbidden", title |-> "Gone"] }

ChatLike == Channels \cup Chats \cup Forbidden

\* types.ChatInvite; request_needed is a flag the object may not carry at all
ChatInvites ==
    { [cls |-> "ChatInvite", title |-> "Club", channel |-> Some(TRUE),
       megagroup |-> Some(TRUE), verified |-> Some(FALSE),
       participants_count |-> Some(MaxCount), request_needed |-> Some(TRUE)],
      [cls |-> "ChatInvite", title |-> "News", channel |-> Some(TRUE),
       megagroup |-> Some(FALSE), verified |-> Some(TRUE),
       participants_count |-> Some(0), request_needed |-> Some(FALSE)],
      [cls |-> "ChatInvite", title |-> "Family", channel |-> Some(FALSE),
       megagroup |-> Some(FALSE), verified |-> None,
       participants_count |-> Some(MaxCount), request_needed |-> None],
      [cls |-> "ChatInvite", title |-> "Family", channel |-> Some(FALSE),
       megagroup |-> Some(TRUE), verified |-> Some(FALSE)] }

\* types.ChatInviteAlready
ChatInviteAlreadys == { [cls |-> "ChatInviteAlready", chat |-> e] : e \in ChatLike }

\* types.ChatInvitePeek, the third shape CheckChatInviteRequest can return
ChatInvitePeeks == { [cls |-> "ChatInvitePeek", chat |-> e] : e \in Chats }

InviteFaults ==
    { Fault("InviteHashExpiredError", "The chat the user tried to join has expired"),
      Fault("FloodWaitError", "A wait of 30 seconds is required") }

InviteReplies ==
    {Returned(r) : r \in ChatInvites \cup ChatInviteAlreadys \cup ChatInvitePeeks}
        \cup InviteFaults

\* contacts.ResolvedPeer: the chats and users lists; a chat alone, a user
\* alone, a chat together with a user, and nothing at all
ResolvedPeers ==
    { [chats |-> <<e>>, users |-> <<>>] : e \in ChatLike }
        \cup { [chats |-> <<>>, users |-> <<u>>] : u \in Users }
        \cup { [chats |-> <<e>>, users |-> <<u>>] : e \in Chats, u \in Users }
        \cup { [chats |-> <<>>, users |-> <<>>] }

\* variant of NotFoundKinds: only one of the two classes is caught
NotFoundKinds_one == {"UsernameNotOccupiedError"}

\* the exception classes of the first except clause of check_username (line 155)
NotFoundKinds == {"UsernameInvalidError", "UsernameNotOccupiedError"}

UsernameFaults ==
    { Fault("UsernameInvalidError", "Nobody is using this username"),
      Fault("UsernameNotOccupiedError", "The username is not in use"),
      Fault("FloodWaitError", "A wait of 30 seconds is required") }

ResolveReplies == {Returned(r) : r \in ResolvedPeers} \cup UsernameFaults

\* messages.ChatFull with its full_chat (types.ChannelFull)
ChannelFulls ==
    { [cls |-> "ChannelFull"] }
        \cup { [cls |-> "ChannelFull", participants_count |-> Some(MaxCount),
                requests_pending |-> rp] : rp \in Counts }

FullFaults == { Fault("ChannelPrivateError", "The channel specified is private") }

FullReplies ==
    {Returned(None), Returned(Some([full_chat |-> None]))}
        \cup {Returned(Some([full_chat |-> Some(fc)])) : fc \in ChannelFulls}
        \cup FullFaults

\* ------------------------------------------------------------------------
\* CheckResult, the classifier and the two adapters
\* ------------------------------------------------------------------------
CheckResult(input_value, status, kind, visibility, verified, requires_approval, member_count, title, username, extra) ==
    [input_value |-> input_value, status |-> status, kind |-> kind,
     visibility |-> visibility, verified |-> verified,
     requires_approval |-> requires_approval, member_count |-> member_count,
     title |-> title, username |-> username, extra |-> extra]

\* classify_chat(entity) -> (kind, visibility, verified)
classify_chat(entity) ==
    IF entity.cls = "Channel"
    THEN << IF PyBool(entity.megagroup) THEN "supergroup" ELSE "channel",
            IF Truthy(entity.username) THEN "public" ELSE "private",
            Some(PyBool(GetAttr(entity, "verified", Some(FALSE)))) >>
    ELSE IF entity.cls = "Chat"
    THEN << "group", "private", Some(PyBool(GetAttr(entity, "verified", Some(FALSE)))) >>
    ELSE IF entity.cls = "User"
    THEN << "user",
            IF Truthy(entity.username) THEN "public" ELSE "private",
            Some(PyBool(GetAttr(entity, "verified", Some(FALSE)))) >>
    ELSE << "unknown", "unknown", None >>

\* variant of invite_requires_approval: a missing flag stays unknown
invite_requires_approval_optional(res) ==
    IF GetAttr(res, "request_needed", None) = None THEN None
    ELSE Some(PyBool(res.request_needed))

\* requires_approval of an invite preview (line 84)
invite_requires_approval(res) == Some(PyBool(GetAttr(res, "request_needed", Some(FALSE))))

\* variant of invite_default_visibility
invite_default_visibility_unknown == "unknown"

\* initial visibility of check_invite (line 81)
invite_default_visibility == "private"

\* check_invite(client, code), given what CheckChatInviteRequest answers
check_invite(reply, code) ==
    IF Raised(reply)
    THEN CheckResult(code, "invalid: " \o reply.exc, "unknown", "unknown",
                     None, None, None, None, None, Some(reply.msg))
    ELSE LET res == reply.ret
         IN  IF res.cls = "ChatInvite"
             THEN CheckResult(code, "valid",
                      IF PyBool(res.channel) /\ PyBool(res.megagroup) THEN "supergroup"
                      ELSE IF PyBool(res.channel) THEN "channel" ELSE "group",
                      invite_default_visibility,
                      Some(PyBool(GetAttr(res, "verified", Some(FALSE)))),
                      invite_requires_approval(res),
                      GetAttr(res, "participants_count", None),
                      Some(res.title), None, None)
             ELSE IF res.cls = "ChatInviteAlready"
             THEN LET c == classify_chat(res.chat)
                  IN  CheckResult(code, "valid", c[1], c[2], c[3], None, None, None,
                                  GetAttr(res.chat, "username", None), None)
             ELSE CheckResult(code, "valid", "unknown", invite_default_visibility,
                              None, None, None, None, None, None)

\* the entity check_username picks from a ResolvedPeer (lines 124-128)
select_entity(resolved) ==
    IF resolved.chats # <<>> THEN Some(resolved.chats[1])
    ELSE IF resolved.users # <<>> THEN Some(resolved.users[1])
    ELSE None

\* the secondary lookup is made for a Channel only (line 134)
wants_full(reply) ==
    /\ ~Raised(reply)
    /\ select_entity(reply.ret) # None
    /\ select_entity(reply.ret)[1].cls = "Channel"

\* variant of approval_from: a counter that is missing or 0 reads as false
approval_from_boolean(join_requests) ==
    Some(join_requests # None /\ join_requests[1] > 0)

\* line 140: requires_approval from the pending-join-request counter
approval_from(join_requests) ==
    IF join_requests # None /\ join_requests[1] > 0 THEN Some(TRUE) ELSE None

\* variant of swallowed: a failed lookup reads as an empty channel
swallowed_as_zero == <<Some(0), None>>

\* lines 141-142: the secondary lookup raised, member_count and
\* requires_approval stay as lines 132-133 set them
swallowed == <<None, None>>

\* lines 135-142: <<member_count, requires_approval>> after the secondary lookup
full_channel_info(fullReply) ==
    IF Raised(fullReply) THEN swallowed
    ELSE IF fullReply.ret = None \/ fullReply.ret[1].full_chat = None
    THEN <<None, None>>
    ELSE LET fc == fullReply.ret[1].full_chat[1]
             join_requests == GetAttr(fc, "requests_pending", None)
         IN  << GetAttr(fc, "participants_count", None), approval_from(join_requests) >>

\* variant of username_fault: the visibility of the success path is kept
username_fault_private(username, exc, msg) ==
    CheckResult(username, "error: " \o exc, "unknown", "private",
                None, None, None, None, None, Some(msg))

\* the except clauses of check_username (lines 155-180)
username_fault(username, exc, msg) ==
    IF exc \in NotFoundKinds
    THEN CheckResult(username, "invalid_username: " \o exc, "unknown", "unknown",
                     None, None, None, None, None, None)
    ELSE CheckResult(username, "error: " \o exc, "unknown", "unknown",
                     None, None, None, None, None, Some(msg))

\* check_username(client, username), given what ResolveUsernameRequest and,
\* for a Channel, GetFullChannelRequest answer
check_username(reply, fullReply, username) ==
    IF Raised(reply) THEN username_fault(username, reply.exc, reply.msg)
    ELSE IF select_entity(reply.ret) = None
    THEN username_fault(username, "UsernameNotOccupiedError", "")
    ELSE LET entity == select_entity(reply.ret)[1]
             c == classify_chat(entity)
             info == IF entity.cls = "Channel" THEN full_channel_info(fullReply)
                     ELSE <<None, None>>
         IN  CheckResult(username, "resolved", c[1], c[2], c[3], info[2], info[1],
                         IF "title" \in DOMAIN entity THEN Some(entity.title) ELSE None,
                         GetAttr(entity, "username", Some(username)), None)

\* ------------------------------------------------------------------------
\* The batch driver: run()
\* ------------------------------------------------------------------------
\* the stripped, non-empty lines read from the input file (lines 274-290)
Lines ==
    { "@abc",
      "not a telegram link at all",
      "@durov",
      "HTTPS://T.ME/JOINCHAT/AAAAAAAAAAAAAAAAAA" }

\* line 293 for each line of the pool, computed once
Parsed == [l \in Lines |-> parse_input(l)]

\* OUTPUT_MODE, lower-cased (line 261): "jsonl" prints a JSON record, every
\* other value a tagged line ("minimal" only changes the text after the tag)
OutputModes == {"compact", "jsonl"}

VARIABLES
    values,       \* the list of raw lines the loop runs over
    output_mode,  \* the output mode of this run
    i,            \* index into values of the line the loop is at
    pc,           \* where run() is: "loop", "emit", "done" or "aborted"
    res,          \* the local variable res, None while unbound
    results,      \* the results list
    processed,    \* the processed counter
    errors,       \* the errors counter
    summary,      \* the printed summary, None until it is printed
    out,          \* lines printed so far, as [tag, item]
    calls,        \* history: remote calls made, as [fn, arg, reply, item]
    origin,       \* history: origin[k] is the index of the line results[k] is for
    errItems      \* history: indices of the lines that incremented errors

vars == <<values, output_mode, i, pc, res, results, processed, errors, summary,
          out, calls, origin, errItems>>

Init ==
    /\ values \in UNION {[1..n -> Lines] : n \in 0..MaxBatch}
    /\ output_mode \in OutputModes
    /\ i = 1
    /\ pc = "loop"
    /\ res = None
    /\ results = <<>>
    /\ processed = 0
    /\ errors = 0
    /\ summary = None
    /\ out = <<>>
    /\ calls = <<>>
    /\ origin = <<>>
    /\ errItems = {}

\* lines 295-299: which adapter a parsed line goes to
route(type_, data) ==
    IF type_ = "invite" /\ Truthy(data) THEN "invite"
    ELSE IF type_ = "username" /\ Truthy(data) THEN "username"
    ELSE "unrecognized"

\* variant of remote_calls: a line that is not an invite is always looked up
remote_calls_lookup_all(type_, data, reply, fullReply, item) ==
    IF route(type_, data) = "invite"
    THEN << [fn |-> "checkInvite", arg |-> data[1], reply |-> reply, item |-> item] >>
    ELSE << [fn |-> "resolveUsername", arg |-> data, reply |-> reply, item |-> item] >>

\* lines 295-313 with 74, 123 and 136: the remote calls made for one line
remote_calls(type_, data, reply, fullReply, item) ==
    IF route(type_, data) = "invite"
    THEN << [fn |-> "checkInvite", arg |-> data[1], reply |-> reply, item |-> item] >>
    ELSE IF route(type_, data) = "username"
    THEN << [fn |-> "resolveUsername", arg |-> data[1], reply |-> reply, item |-> item] >>
         \o (IF wants_full(reply)
             THEN << [fn |-> "getFullChannelInfo", arg |-> data[1],
                      reply |-> fullReply, item |-> item] >>
             ELSE <<>>)
    ELSE <<>>

\* variant of set_input_value: the adapter's input_value is kept
set_input_value_kept(r, value) == r

\* lines 297 and 300: res.input_value = value
set_input_value(r, value) == [r EXCEPT !.input_value = value]

\* lines 302-313
unrecognized(value) ==
    CheckResult(value, "unrecognized", "unknown", "unknown",
                None, None, None, None, None, None)

\* lines 314-315: results.append(res); processed += 1
Collect(r, made) ==
    /\ res' = Some(r)
    /\ results' = Append(results, r)
    /\ processed' = processed + 1
    /\ origin' = Append(origin, i)
    /\ calls' = calls \o made
    /\ pc' = "emit"
    /\ UNCHANGED <<values, output_mode, i, errors, summary, out, errItems>>

AtLine == pc = "loop" /\ i <= Len(values)

\* lines 293-297, 314-315: an invite line
ResolveInvite ==
    /\ AtLine
    /\ LET value == values[i]
           type_ == Parsed[value][1]
           data == Parsed[value][2]
       IN  /\ route(type_, data) = "invite"
           /\ \E reply \in InviteReplies :
                Collect(set_input_value(check_invite(reply, data[1]), value),
                        remote_calls(type_, data, reply, reply, i))

\* lines 293-294, 298-300, 314-315: a username line
ResolveUsername ==
    /\ AtLine
    /\ LET value == values[i]
           type_ == Parsed[value][1]
           data == Parsed[value][2]
       IN  /\ route(type_, data) = "username"
           /\ \E reply \in ResolveReplies :
                \E fullReply \in IF wants_full(reply) THEN FullReplies ELSE {Returned(None)} :
                    Collect(set_input_value(check_username(reply, fullReply, data[1]), value),
                            remote_calls(type_, data, reply, fullReply, i))

\* lines 293-294, 301-315: a line that is neither
Synthesize ==
    /\ AtLine
    /\ LET value == values[i]
           type_ == Parsed[value][1]
           data == Parsed[value][2]
       IN  /\ route(type_, data) = "unrecognized"
           /\ Collect(unrecognized(value), remote_calls(type_, data, None, None, i))

\* lines 330-340: the tag of the human-readable line
tag_of(status) ==
    IF status \in {"valid", "resolved"} THEN "[VALID]"
    ELSE IF status = "unrecognized" THEN "[UNKNOWN]"
    ELSE "[INVALID]"

\* lines 316-340: the line of the item is printed
Emit ==
    /\ pc = "emit"
    /\ out' = Append(out, [tag |-> IF output_mode = "jsonl" THEN "json"
                                   ELSE tag_of(res[1].status), item |-> i])
    /\ i' = i + 1
    /\ pc' = "loop"
    /\ UNCHANGED <<values, output_mode, res, results, processed, errors, summary,
                   calls, origin, errItems>>

\* lines 316-344: building or printing the line raises an Exception; the
\* handler counts it and prints the [ERROR] line
EmitFault ==
    /\ pc = "emit"
    /\ errors' = errors + 1
    /\ errItems' = errItems \cup {i}
    /\ out' = Append(out, [tag |-> "[ERROR]", item |-> i])
    /\ i' = i + 1
    /\ pc' = "loop"
    /\ UNCHANGED <<values, output_mode, res, results, processed, summary, calls, origin>>

\* lines 341-344: the print of the handler raises too and run() ends there
EmitAbort ==
    /\ pc = "emit"
    /\ errors' = errors + 1
    /\ errItems' = errItems \cup {i}
    /\ pc' = "aborted"
    /\ UNCHANGED <<values, output_mode, i, res, results, processed, summary, out,
                   calls, origin>>

CountStatus(rs, S) == Cardinality({k \in 1..Len(rs) : rs[k].status \in S})

\* lines 346-351
Summarize ==
    /\ pc = "loop"
    /\ i > Len(values)
    /\ LET ok == CountStatus(results, {"valid", "resolved"})
           unrec == CountStatus(results, {"unrecognized"})
           bad == processed - ok - unrec
       IN  summary' = Some([processed |-> processed, ok |-> ok, unknown |-> unrec,
                            errors |-> errors, invalid |-> bad])
    /\ pc' = "done"
    /\ UNCHANGED <<values, output_mode, i, res, results, processed, errors, out,
                   calls, origin, errItems>>

Next ==
    \/ ResolveInvite
    \/ ResolveUsername
    \/ Synthesize
    \/ Emit
    \/ EmitFault
    \/ EmitAbort
    \/ Summarize

Spec == Init /\ [][Next]_vars

\* ------------------------------------------------------------------------
\* Properties
\* ------------------------------------------------------------------------
StartsWith(s, prefix) == Len(s) >= Len(prefix) /\ SubSeq(s, 1, Len(prefix)) = prefix

\* the statuses the summary tallies as ok and as unknown (lines 346-347)
OkStatuses == {"valid", "resolved"}

\* indices of the results that are for line k
ResultsOf(k) == {j \in 1..Len(results) : origin[j] = k}

\* indices of the printed [ERROR] lines of line k
ErrorLinesOf(k) == {n \in 1..Len(out) : out[n].item = k /\ out[n].tag = "[ERROR]"}

\* indices of the logged calls to fn made for line k
CallsOf(k, fns) == {c \in 1..Len(calls) : calls[c].item = k /\ calls[c].fn \in fns}

\* lines the loop has started: all before i, and i once its result is collected
Started == {k \in 1..Len(values) : k < i \/ (k = i /\ pc \in {"emit", "aborted"})}

\* C1: once the summary is printed, ok + unknown + invalid = processed, and no
\* line that incremented errors has a result tallied as invalid.
C1_SummaryDisjoint ==
    pc = "done" =>
        /\ summary[1].ok + summary[1].unknown + summary[1].invalid = summary[1].processed
        /\ \A k \in errItems :
              \A j \in ResultsOf(k) :
                  results[j].status \in OkStatuses \cup {"unrecognized"}

\* C2: when the batch has finished, every input line has exactly one of a
\* result in the results list or a printed [ERROR] line, so that
\* processed + errors equals the number of input lines.
C2_OneRecordOrOneError ==
    pc = "done" =>
        /\ \A k \in 1..Len(values) :
              \/ Cardinality(ResultsOf(k)) = 1 /\ ErrorLinesOf(k) = {}
              \/ ResultsOf(k) = {} /\ Cardinality(ErrorLinesOf(k)) = 1
        /\ processed + errors = Len(values)

\* the results are for started lines, in input order, each line at most once
\* as often as it was given, and carry the raw line as input_value
C3_State ==
    /\ Len(origin) = Len(results)
    /\ \A j \in 1..Len(results) :
          /\ origin[j] \in Started
          /\ results[j].input_value = values[origin[j]]
    /\ \A j1, j2 \in 1..Len(results) : j1 < j2 => origin[j1] < origin[j2]

\* a step leaves the results list alone or appends one result to it
C3_Step ==
    \/ results' = results
    \/ /\ Len(results') = Len(results) + 1
       /\ SubSeq(results', 1, Len(results)) = results

\* C3: the results list is append-only and keeps input order: the
\* input_value fields of the results are, in order, raw lines of the lines
\* started so far, never the parsed code or handle, whatever faults occur.
C3_InputOrder == [](C3_State) /\ [][C3_Step]_vars

\* two results for a repeated line whose payload differs from the raw line,
\* the first of which met a fault while its line was printed
C3_Witness ==
    /\ Len(results) = 2
    /\ values[1] = values[2]
    /\ Parsed[values[1]][1] = "invite"
    /\ Some(values[1]) # Parsed[values[1]][2]
    /\ 1 \in errItems

FailureStatus(status) ==
    \/ status = "unrecognized"
    \/ StartsWith(status, "invalid")
    \/ StartsWith(status, "error")

\* C4: every result whose status is unrecognized or begins with "invalid" or
\* "error" has kind and visibility unknown and verified, requires_approval,
\* member_count, title and username absent.
C4_FailureFieldsAbsent ==
    \A j \in 1..Len(results) :
        FailureStatus(results[j].status) =>
            /\ results[j].kind = "unknown"
            /\ results[j].visibility = "unknown"
            /\ results[j].verified = None
            /\ results[j].requires_approval = None
            /\ results[j].member_count = None
            /\ results[j].title = None
            /\ results[j].username = None

\* a failed username lookup right after a result that carries every field
C4_Witness ==
    /\ Len(results) = 2
    /\ results[1].status = "resolved"
    /\ results[1].title # None /\ results[1].member_count # None
    /\ results[1].requires_approval # None /\ results[1].username # None
    /\ StartsWith(results[2].status, "error")

PrimaryCalls == {"checkInvite", "resolveUsername"}

AllCalls == PrimaryCalls \cup {"getFullChannelInfo"}

\* C5: a line the parser types unknown ("@abc" is one) gets a result with
\* status unrecognized and no remote call at all; a line typed invite or
\* username gets exactly one primary call, to the matching collaborator.
C5_CallsMatchKind ==
    /\ Parsed["@abc"][1] = "unknown"
    /\ \A k \in Started :
          LET type_ == Parsed[values[k]][1]
          IN  /\ ResultsOf(k) # {}
              /\ type_ = "unknown" =>
                    /\ \A j \in ResultsOf(k) : results[j].status = "unrecognized"
                    /\ CallsOf(k, AllCalls) = {}
              /\ type_ = "invite" =>
                    /\ Cardinality(CallsOf(k, PrimaryCalls)) = 1
                    /\ CallsOf(k, {"checkInvite"}) # {}
              /\ type_ = "username" =>
                    /\ Cardinality(CallsOf(k, PrimaryCalls)) = 1
                    /\ CallsOf(k, {"resolveUsername"}) # {}

\* "@abc" and an invite line have both been handled
C5_Witness ==
    /\ Len(values) = 2 /\ values[1] = "@abc" /\ Parsed[values[2]][1] = "invite"
    /\ Started = {1, 2}
    /\ results[1].status = "unrecognized"
    /\ CallsOf(2, {"checkInvite"}) # {}

\* the calls a step adds to the log
NewCalls == SubSeq(calls', Len(calls) + 1, Len(calls'))

\* the result a step appends
NewResult == results'[Len(results')]

\* C6: when resolveUsername returns a Channel and the full-channel-info
\* lookup raises, the adapter still returns status resolved with the kind,
\* visibility and verified of the classifier, member_count and
\* requires_approval absent; errors is not incremented and the driver
\* collects the result and goes on.
C6_Step ==
    \A c \in 1..Len(NewCalls) :
        (NewCalls[c].fn = "getFullChannelInfo" /\ Raised(NewCalls[c].reply)) =>
            LET entity == NewCalls[1].reply.ret.chats[1]
            IN  /\ NewCalls[1].fn = "resolveUsername"
                /\ entity.cls = "Channel"
                /\ Len(results') = Len(results) + 1
                /\ NewResult.status = "resolved"
                /\ <<NewResult.kind, NewResult.visibility, NewResult.verified>>
                       = classify_chat(entity)
                /\ NewResult.kind \in {"channel", "supergroup"}
                /\ NewResult.member_count = None
                /\ NewResult.requires_approval = None
                /\ errors' = errors
                /\ pc' = "emit"

C6_SecondaryFaultSwallowed == [][C6_Step]_vars

\* the full-channel-info lookup of line 1 raised and the loop is at line 2
C6_Witness ==
    /\ i = 2 /\ pc = "loop" /\ Len(values) = 2
    /\ \E c \in CallsOf(1, {"getFullChannelInfo"}) : Raised(calls[c].reply)
    /\ results[1].status = "resolved"

\* the reply of the checkInvite call made for the line of results[j]
InviteReplyOf(j) ==
    calls[CHOOSE c \in 1..Len(calls) :
              calls[c].item = origin[j] /\ calls[c].fn = "checkInvite"].reply

\* results that come from an invite preview (types.ChatInvite)
PreviewResults ==
    {j \in 1..Len(results) :
        /\ CallsOf(origin[j], {"checkInvite"}) # {}
        /\ ~Raised(InviteReplyOf(j))
        /\ InviteReplyOf(j).ret.cls = "ChatInvite"}

\* the preview carries the join-request-needed flag
CarriesFlag(preview) ==
    "request_needed" \in DOMAIN preview /\ preview.request_needed # None

\* C7 as stated: requires_approval of an invite preview is true or false only
\* when the preview carries the flag, and absent when it does not.
C7_TriState ==
    \A j \in PreviewResults :
        LET preview == InviteReplyOf(j).ret
        IN  /\ results[j].requires_approval # None => CarriesFlag(preview)
            /\ ~CarriesFlag(preview) => results[j].requires_approval = None

\* C7 amended: requires_approval of an invite preview is never absent; it is
\* true exactly when the preview carries the flag set to true, and false when
\* the flag is false or missing.
C7_FlagDefaultsFalse ==
    \A j \in PreviewResults :
        LET preview == InviteReplyOf(j).ret
        IN  results[j].requires_approval =
                Some(CarriesFlag(preview) /\ preview.request_needed = Some(TRUE))

\* a result for a preview without the flag, and one for a preview with it
C7_Witness ==
    /\ \E j \in PreviewResults : ~CarriesFlag(InviteReplyOf(j).ret)
    /\ \E j \in PreviewResults :
          /\ CarriesFlag(InviteReplyOf(j).ret)
          /\ InviteReplyOf(j).ret.request_needed = Some(TRUE)

\* results that come from a successful checkInvite reply that is neither a
\* ChatInvite nor a ChatInviteAlready
OtherShapeResults ==
    {j \in 1..Len(results) :
        /\ CallsOf(origin[j], {"checkInvite"}) # {}
        /\ ~Raised(InviteReplyOf(j))
        /\ InviteReplyOf(j).ret.cls \notin {"ChatInvite", "ChatInviteAlready"}}

\* C8 as stated: such a result has status valid, kind unknown and visibility
\* unknown.
C8_OtherShapeUnknown ==
    \A j \in OtherShapeResults :
        /\ results[j].status = "valid"
        /\ results[j].kind = "unknown"
        /\ results[j].visibility = "unknown"

\* C8 amended: such a result has status valid, kind unknown and visibility
\* private.
C8_OtherShapePrivate ==
    \A j \in OtherShapeResults :
        /\ results[j].status = "valid"
        /\ results[j].kind = "unknown"
        /\ results[j].visibility = "private"

C8_Witness == OtherShapeResults # {}

\* C9: a username-invalid or username-not-occupied fault, or a reply with no
\* chats and no users, gives status "invalid_username: <kind>" with extra
\* absent and no secondary lookup; any other fault of the primary call
\* gives "error: <kind>" with extra the fault's text.  Either way the result
\* is returned to the driver and errors is not incremented.
C9_Step ==
    \A c \in 1..Len(NewCalls) :
        NewCalls[c].fn = "resolveUsername" =>
            LET reply == NewCalls[c].reply
                notFound ==
                    \/ Raised(reply) /\ reply.exc \in {"UsernameInvalidError",
                                                       "UsernameNotOccupiedError"}
                    \/ ~Raised(reply) /\ reply.ret.chats = <<>> /\ reply.ret.users = <<>>
                kind == IF Raised(reply) THEN reply.exc ELSE "UsernameNotOccupiedError"
            IN  /\ notFound =>
                    /\ Len(results') = Len(results) + 1
                    /\ NewResult.status = "invalid_username: " \o kind
                    /\ NewResult.extra = None
                    /\ Len(NewCalls) = 1
                    /\ errors' = errors /\ pc' = "emit"
                /\ (Raised(reply) /\ ~notFound) =>
                    /\ Len(results') = Len(results) + 1
                    /\ NewResult.status = "error: " \o reply.exc
                    /\ NewResult.extra = Some(reply.msg)
                    /\ Len(NewCalls) = 1
                    /\ errors' = errors /\ pc' = "emit"

C9_UsernameFaults == [][C9_Step]_vars

\* one line met a username-invalid fault and the next one another fault
C9_Witness ==
    /\ Len(results) = 2
    /\ results[1].status = "invalid_username: UsernameInvalidError"
    /\ results[2].status = "error: FloodWaitError"
    /\ errors = 0

\* results that come from the username adapter, with the replies it got
UsernameResults == {j \in 1..Len(results) : CallsOf(origin[j], {"resolveUsername"}) # {}}

ResolveReplyOf(j) ==
    calls[CHOOSE c \in 1..Len(calls) :
              calls[c].item = origin[j] /\ calls[c].fn = "resolveUsername"].reply

\* the full-channel-info lookup for results[j] succeeded with a pending
\* join-request counter that is present and greater than 0
PendingRequests(j) ==
    \E c \in CallsOf(origin[j], {"getFullChannelInfo"}) :
        LET full == calls[c].reply
        IN  /\ ~Raised(full)
            /\ full.ret # None
            /\ full.ret[1].full_chat # None
            /\ "requests_pending" \in DOMAIN full.ret[1].full_chat[1]
            /\ full.ret[1].full_chat[1].requests_pending # None
            /\ full.ret[1].full_chat[1].requests_pending[1] > 0

\* the entity the adapter resolved for results[j] is a Channel
ResolvedChannel(j) ==
    /\ ~Raised(ResolveReplyOf(j))
    /\ ResolveReplyOf(j).ret.chats # <<>>
    /\ ResolveReplyOf(j).ret.chats[1].cls = "Channel"

\* C10: requires_approval of a username result is true or absent, never
\* false: true exactly when the entity is a Channel whose full-channel-info
\* lookup succeeded with a pending-join-request counter present and above 0.
C10_ApprovalTrueOrAbsent ==
    \A j \in UsernameResults :
        /\ results[j].requires_approval \in {Some(TRUE), None}
        /\ results[j].requires_approval = Some(TRUE)
              <=> (ResolvedChannel(j) /\ PendingRequests(j))

\* a Channel with pending requests, and one whose counter is 0
C10_Witness ==
    /\ Len(results) = 2
    /\ UsernameResults = {1, 2}
    /\ results[1].requires_approval = Some(TRUE)
    /\ ResolvedChannel(2) /\ ~PendingRequests(2)
    /\ \E c \in CallsOf(2, {"getFullChannelInfo"}) :
          ~Raised(calls[c].reply) /\ calls[c].reply.ret # None
          /\ calls[c].reply.ret[1].full_chat # None
          /\ GetAttr(calls[c].reply.ret[1].full_chat[1], "requests_pending", None) = Some(0)

====
